---- MODULE Spec2Model ----
(***************************************************************************)
(* Recursive-descent recognizers for the nested name-list grammar:         *)
(* the chapter 3 lexer (Lexer with Scan/Next) and the chapter 3            *)
(* backtracking parser (BacktrackingParser with mark/release and an        *)
(* unbounded lookahead buffer); the chapter 2 lexer, the LL(1) Parser and  *)
(* the LLkParser with its circular buffer of k tokens.                     *)
(*                                                                         *)
(* Characters are modelled by their code points, token texts by sequences  *)
(* of code points, Go slices by sequences (0-based indices of the code are *)
(* kept in the variables; +1 is added where a sequence is indexed).        *)
(***************************************************************************)
EXTENDS Integers, Sequences, FiniteSets, TLC

VARIABLES
    input,      \* the string handed to NewLexer
    lex,        \* Lexer: [input, pos, current, stopped]
    lookahead,  \* BacktrackingParser.lookahead
    pos,        \* BacktrackingParser.pos
    markers,    \* BacktrackingParser.markers
    panicv,     \* the value of a panic in flight (nil when none)
    ctl,        \* the call stack: pending calls and continuations, top first
    ret,        \* the boolean returned by the last speculate call
    outcome,    \* how the client's call ended: "running", "returned", "panicked"
    client,     \* which client drives the objects: "lex", "stat" or "ops"
    out,        \* lexer client: the results of its Next calls, in order
    buf,        \* LLkParser.buf, the circular lookahead buffer
    k,          \* LLkParser.k
    err,        \* Parser.err / LLkParser.err
    hist        \* history (ghost) record used to state the properties

vars == <<input, lex, lookahead, pos, markers, panicv, ctl, ret, outcome,
          client, out, buf, k, err, hist>>

-----------------------------------------------------------------------------
(* Bounds of the model *)

\* longest free-form input string
MaxLen == 3
\* longest string e of an input of the form "[" e "]"
MaxInner == 3
\* longest strings e, f of an input of the form "[" e "]=[" f "]"
MaxSide == 1
\* calls of Next a lexer client makes after the lexer first stopped
MaxExtra == 2
\* direct calls a client of the parser's buffer operations makes
MaxOps == 6
\* longest input string of that client
MaxOpsLen == 2
\* deepest peek a client of the buffer operations asks for
MaxPeek == 2
\* largest k of an LLkParser whose match is called directly
MaxK == 3
\* frames on the call stack of Parser.list() at which a run is given up
MaxStack == 16

-----------------------------------------------------------------------------
(* Characters *)

\* rune(-1), the end-of-input sentinel
eof == -1
ChSpace == 32
ChTab == 9
ChLF == 10
ChCR == 13
ChComma == 44
ChDigit == 49
ChEquals == 61
ChUpperA == 65
ChUpperZ == 90
ChLBrack == 91
ChRBrack == 93
ChLowerA == 97
ChLowerZ == 122

\* the characters inputs are drawn from: the four punctuation marks, the
\* letters 'a' and 'z', a space, and '1' (a character of no token)
Alphabet == {ChLBrack, ChRBrack, ChComma, ChEquals, ChLowerA, ChLowerZ,
             ChSpace, ChDigit}

-----------------------------------------------------------------------------
(* Tokens *)

EOF == 0
LBrack == 1
RBrack == 2
Name == 3
Comma == 4
Equals == 5

Token(typ, text) == [Type |-> typ, Text |-> text]

\* Token{}: the zero value
ZeroToken == Token(EOF, <<>>)

(* Error values.  nil is the absent error. *)
nil == [kind |-> "nil"]
LexicalError(c) == [kind |-> "LexicalError", char |-> c]
SyntaxErrorAt(site, expecting, found) ==
    [kind |-> "SyntaxError", site |-> site, expecting |-> expecting, found |-> found]
RuntimeError == [kind |-> "RuntimeError"]

-----------------------------------------------------------------------------
(* Lexer (chapter 3) *)

NewLexer(s) ==
    IF s = <<>>
    THEN [input |-> <<>>, pos |-> 0, current |-> eof, stopped |-> FALSE]
    ELSE [input |-> s, pos |-> 0, current |-> s[1], stopped |-> FALSE]

isLetter(r) ==
    (r >= ChLowerA /\ r < ChLowerZ) \/ (r >= ChUpperA /\ r <= ChUpperZ)

Scan(l) == ~l.stopped

lexConsume(l) ==
    IF l.pos + 1 >= Len(l.input)
    THEN [l EXCEPT !.pos = l.pos + 1, !.current = eof]
    ELSE [l EXCEPT !.pos = l.pos + 1, !.current = l.input[l.pos + 2]]

RECURSIVE nameLoop(_, _)
nameLoop(l, s) ==
    IF isLetter(l.current)
    THEN nameLoop(lexConsume(l), Append(s, l.current))
    ELSE [tok |-> Token(Name, s), err |-> nil, lex |-> l]

name(l) == nameLoop(l, <<>>)

lexBadConsumes(l) ==
    [tok |-> ZeroToken, err |-> LexicalError(l.current),
     lex |-> [lexConsume(l) EXCEPT !.stopped = TRUE]]

\* Next at a character of no token: lex.stopped = true; return Token{}, error
lexBad(l) ==
    [tok |-> ZeroToken, err |-> LexicalError(l.current), lex |-> [l EXCEPT !.stopped = TRUE]]

lexEndRewinds(l) ==
    [tok |-> Token(EOF, <<>>), err |-> nil,
     lex |-> [NewLexer(l.input) EXCEPT !.stopped = TRUE]]

\* Next at the end of the input: lex.stopped = true; return Token{Type: EOF}, nil
lexEnd(l) ==
    [tok |-> Token(EOF, <<>>), err |-> nil, lex |-> [l EXCEPT !.stopped = TRUE]]

RECURSIVE LexNext(_)
LexNext(l) ==
    IF l.current # eof
    THEN CASE l.current \in {ChSpace, ChTab, ChLF, ChCR} -> LexNext(lexConsume(l))
           [] l.current = ChComma ->
                [tok |-> Token(Comma, <<ChComma>>), err |-> nil, lex |-> lexConsume(l)]
           [] l.current = ChLBrack ->
                [tok |-> Token(LBrack, <<ChLBrack>>), err |-> nil, lex |-> lexConsume(l)]
           [] l.current = ChRBrack ->
                [tok |-> Token(RBrack, <<ChRBrack>>), err |-> nil, lex |-> lexConsume(l)]
           [] l.current = ChEquals ->
                [tok |-> Token(Equals, <<ChEquals>>), err |-> nil, lex |-> lexConsume(l)]
           [] OTHER ->
                IF isLetter(l.current)
                THEN name(l)
                ELSE lexBad(l)
    ELSE lexEnd(l)

-----------------------------------------------------------------------------
(* Lexer (chapter 2): no '=' token, no Scan; the record is [input, p, cur] *)

\* rune(-1), the end-of-input sentinel of the chapter 2 lexer
inputEOF == -1

ch2_NewLexer(s) ==
    IF s = <<>>
    THEN [input |-> s, p |-> 0, cur |-> inputEOF]
    ELSE [input |-> s, p |-> 0, cur |-> s[1]]

ch2_isLetter(r) ==
    (r >= ChLowerA /\ r < ChLowerZ) \/ (r >= ChUpperA /\ r <= ChUpperZ)

ch2_consume(l) ==
    IF l.p + 1 >= Len(l.input)
    THEN [l EXCEPT !.p = l.p + 1, !.cur = inputEOF]
    ELSE [l EXCEPT !.p = l.p + 1, !.cur = l.input[l.p + 2]]

RECURSIVE ch2_nameLoop(_, _)
ch2_nameLoop(l, s) ==
    IF ch2_isLetter(l.cur)
    THEN ch2_nameLoop(ch2_consume(l), Append(s, l.cur))
    ELSE [tok |-> Token(Name, s), err |-> nil, lex |-> l]

ch2_name(l) == ch2_nameLoop(l, <<>>)

RECURSIVE ch2_Next(_)
ch2_Next(l) ==
    IF l.cur # inputEOF
    THEN CASE l.cur \in {ChSpace, ChTab, ChLF, ChCR} -> ch2_Next(ch2_consume(l))
           [] l.cur = ChComma ->
                [tok |-> Token(Comma, <<ChComma>>), err |-> nil, lex |-> ch2_consume(l)]
           [] l.cur = ChLBrack ->
                [tok |-> Token(LBrack, <<ChLBrack>>), err |-> nil, lex |-> ch2_consume(l)]
           [] l.cur = ChRBrack ->
                [tok |-> Token(RBrack, <<ChRBrack>>), err |-> nil, lex |-> ch2_consume(l)]
           [] OTHER ->
                IF ch2_isLetter(l.cur)
                THEN ch2_name(l)
                ELSE [tok |-> ZeroToken, err |-> LexicalError(l.cur), lex |-> l]
    ELSE [tok |-> Token(EOF, <<>>), err |-> nil, lex |-> l]

-----------------------------------------------------------------------------
(* BacktrackingParser (chapter 3): the buffer operations.                  *)
(* They act on a record P of the parser's fields, the lexer it owns, the   *)
(* panic in flight, and three history counters: nexts (calls of            *)
(* Lexer.Next), lexErrs (calls that returned an error) and resets (buffer  *)
(* resets done by consume).  An operation that panics leaves P.panicv set  *)
(* and the fields as they were at the panic.                               *)

isSpeculatingNever(P) == FALSE

isSpeculating(P) == Len(P.markers) > 0

RECURSIVE fill(_, _)
\* one round of fill's loop, r being what p.input.Next() returned
fillStep(P, n, r) ==
    IF r.err # nil
    THEN [P EXCEPT !.lex = r.lex, !.nexts = @ + 1, !.lexErrs = @ + 1, !.panicv = r.err]
    ELSE fill([P EXCEPT !.lex = r.lex, !.nexts = @ + 1,
                        !.lookahead = Append(@, r.tok)], n - 1)

fill(P, n) == IF n <= 0 THEN P ELSE fillStep(P, n, LexNext(P.lex))

\* sync filling the buffer only when the index is beyond its length
syncOffByOne(P, i) ==
    IF P.pos + i - 1 > Len(P.lookahead)
    THEN fill(P, P.pos + i - 1 - (Len(P.lookahead) - 1))
    ELSE P

sync(P, i) ==
    IF P.pos + i - 1 > Len(P.lookahead) - 1
    THEN fill(P, P.pos + i - 1 - (Len(P.lookahead) - 1))
    ELSE P

\* peek returns [p |-> the parser after the call, tok |-> the token returned]
\* the index peek(n) reads once sync(n) has run
peekIndex(Q, n) ==
    IF Q.pos + n - 1 = Len(Q.lookahead) THEN 0 ELSE Q.pos + n - 1

\* the rest of peek(n) after p.sync(n) left the parser Q
peekAt(Q, n) ==
    IF Q.panicv # nil
    THEN [p |-> Q, tok |-> ZeroToken]
    ELSE IF peekIndex(Q, n) + 1 \in DOMAIN Q.lookahead
         THEN [p |-> Q, tok |-> Q.lookahead[peekIndex(Q, n) + 1]]
         ELSE [p |-> [Q EXCEPT !.panicv = RuntimeError], tok |-> ZeroToken]

peek(P, n) == peekAt(sync(P, n), n)

consumeResetOffByOne(P1) ==
    IF ~isSpeculating(P1) /\ P1.pos = Len(P1.lookahead) - 1
    THEN [P1 EXCEPT !.pos = 0, !.lookahead = <<>>, !.resets = @ + 1]
    ELSE P1

\* the buffer reset of consume, P1 being the parser after p.pos++
consumeReset(P1) ==
    IF ~isSpeculating(P1) /\ P1.pos = Len(P1.lookahead)
    THEN [P1 EXCEPT !.pos = 0, !.lookahead = <<>>, !.resets = @ + 1]
    ELSE P1

consumeNoAdvance(P) == sync(consumeReset(P), 1)

consume(P) == sync(consumeReset([P EXCEPT !.pos = @ + 1]), 1)

matchTokAnyType(r, typ) ==
    IF r.p.panicv # nil THEN r.p ELSE consume(r.p)

\* the rest of match(typ) after tok := p.peek(1) returned r
matchTok(r, typ) ==
    IF r.p.panicv # nil
    THEN r.p
    ELSE IF r.tok.Type = typ
         THEN consume(r.p)
         ELSE [r.p EXCEPT !.panicv = SyntaxErrorAt("match", {typ}, r.tok.Type)]

match(P, typ) == matchTok(peek(P, 1), typ)

mark(P) == [P EXCEPT !.markers = Append(@, P.pos)]

seekOffByOne(P, position) == [P EXCEPT !.pos = position + 1]

seek(P, position) == [P EXCEPT !.pos = position]

releaseNoSeek(P) ==
    IF P.markers = <<>>
    THEN [P EXCEPT !.panicv = RuntimeError]
    ELSE [P EXCEPT !.markers = SubSeq(@, 1, Len(@) - 1)]

releaseFirst(P) ==
    IF P.markers = <<>>
    THEN [P EXCEPT !.panicv = RuntimeError]
    ELSE seek([P EXCEPT !.markers = Tail(@)], P.markers[1])

release(P) ==
    IF P.markers = <<>>
    THEN [P EXCEPT !.panicv = RuntimeError]
    ELSE seek([P EXCEPT !.markers = SubSeq(@, 1, Len(@) - 1)], P.markers[Len(P.markers)])

-----------------------------------------------------------------------------
(* Inputs *)

Strings(n) == UNION {[1..m -> Alphabet] : m \in 0..n}

Wrap(e) == <<ChLBrack>> \o e \o <<ChRBrack>>

\* free-form strings, bracketed strings "[e]" and strings "[e]=[f]"
Inputs ==
    Strings(MaxLen)
    \cup {Wrap(e) : e \in Strings(MaxInner)}
    \cup {Wrap(e) \o <<ChEquals>> \o Wrap(f) : e \in Strings(MaxSide), f \in Strings(MaxSide)}

-----------------------------------------------------------------------------
(* The grammar, as a reference: segmentation of a string into tokens and    *)
(* membership of a token sequence in the language                           *)
(*   stat : list EOF | assign EOF ;   assign : list '=' list ;              *)
(*   list : '[' elements ']' ;        elements : element (',' element)* ;   *)
(*   element : NAME '=' NAME | NAME | list ;   NAME : ('a'..'z'|'A'..'Z')+  *)

IsSpace(c) == c \in {ChSpace, ChTab, ChLF, ChCR}

IsGrammarLetter(c) == c \in (ChLowerA..ChLowerZ) \cup (ChUpperA..ChUpperZ)

PunctType(c) ==
    CASE c = ChLBrack -> LBrack
      [] c = ChRBrack -> RBrack
      [] c = ChComma -> Comma
      [] c = ChEquals -> Equals

IsTerminalChar(c) ==
    IsSpace(c) \/ IsGrammarLetter(c) \/ c \in {ChLBrack, ChRBrack, ChComma, ChEquals}

AllTerminals(s) == \A i \in DOMAIN s : IsTerminalChar(s[i])

\* last index of the maximal run of letters of s that starts at i
RunEnd(s, i) ==
    CHOOSE j \in i..Len(s) :
        /\ \A m \in i..j : IsGrammarLetter(s[m])
        /\ j = Len(s) \/ ~IsGrammarLetter(s[j + 1])

RECURSIVE RefTokensFrom(_, _)
RefTokensFrom(s, i) ==
    IF i > Len(s)
    THEN <<>>
    ELSE IF IsSpace(s[i])
         THEN RefTokensFrom(s, i + 1)
         ELSE IF IsGrammarLetter(s[i])
              THEN <<Token(Name, SubSeq(s, i, RunEnd(s, i)))>> \o RefTokensFrom(s, RunEnd(s, i) + 1)
              ELSE <<Token(PunctType(s[i]), <<s[i]>>)>> \o RefTokensFrom(s, i + 1)

\* the tokens of a string of terminal characters (without the final EOF)
RefTokens(s) == RefTokensFrom(s, 1)

RECURSIVE IsList(_, _, _), IsElements(_, _, _), IsElement(_, _, _)
IsList(t, i, j) ==
    /\ i < j
    /\ t[i].Type = LBrack
    /\ t[j].Type = RBrack
    /\ IsElements(t, i + 1, j - 1)

IsElements(t, i, j) ==
    \/ IsElement(t, i, j)
    \/ \E m \in i..j :
          /\ t[m].Type = Comma
          /\ IsElement(t, i, m - 1)
          /\ IsElements(t, m + 1, j)

IsElement(t, i, j) ==
    \/ j = i /\ t[i].Type = Name
    \/ j = i + 2 /\ t[i].Type = Name /\ t[i + 1].Type = Equals /\ t[j].Type = Name
    \/ IsList(t, i, j)

\* the chapter 2 grammar NestedNameList: element : NAME | list
RECURSIVE ch2_IsList(_, _, _), ch2_IsElements(_, _, _), ch2_IsElement(_, _, _)
ch2_IsList(t, i, j) ==
    /\ i < j
    /\ t[i].Type = LBrack
    /\ t[j].Type = RBrack
    /\ ch2_IsElements(t, i + 1, j - 1)

ch2_IsElements(t, i, j) ==
    \/ ch2_IsElement(t, i, j)
    \/ \E m \in i..j :
          /\ t[m].Type = Comma
          /\ ch2_IsElement(t, i, m - 1)
          /\ ch2_IsElements(t, m + 1, j)

ch2_IsElement(t, i, j) ==
    \/ j = i /\ t[i].Type = Name
    \/ ch2_IsList(t, i, j)

IsAssign(t) ==
    \E m \in DOMAIN t :
        /\ t[m].Type = Equals
        /\ IsList(t, 1, m - 1)
        /\ IsList(t, m + 1, Len(t))

IsStat(t) == IsList(t, 1, Len(t)) \/ IsAssign(t)

\* the input string matches the grammar
InGrammar(s) == AllTerminals(s) /\ IsStat(RefTokens(s))

\* the input string is of the form list '=' list
IsAssignInput(s) == AllTerminals(s) /\ IsAssign(RefTokens(s))

-----------------------------------------------------------------------------
(* The token stream of the lexer: what repeated calls of Next deliver *)

RECURSIVE LexRun(_)
LexRunPrepend(t, R) == [toks |-> <<t>> \o R.toks, ok |-> R.ok]

LexRunStep(r) ==
    IF r.err # nil
    THEN [toks |-> <<>>, ok |-> FALSE]
    ELSE IF r.tok.Type = EOF
         THEN [toks |-> <<>>, ok |-> TRUE]
         ELSE LexRunPrepend(r.tok, LexRun(r.lex))

\* toks: the tokens Next returns before EOF or an error; ok: it reached EOF
LexRun(l) == LexRunStep(LexNext(l))

LexValid(s) == LexRun(NewLexer(s)).ok

RECURSIVE ch2_LexRun(_)
ch2_LexRunStep(r) ==
    IF r.err # nil
    THEN [toks |-> <<>>, ok |-> FALSE]
    ELSE IF r.tok.Type = EOF
         THEN [toks |-> <<>>, ok |-> TRUE]
         ELSE LexRunPrepend(r.tok, ch2_LexRun(r.lex))

\* the same for the chapter 2 lexer
ch2_LexRun(l) == ch2_LexRunStep(ch2_Next(l))

\* the token at position i (from 1) of the stream: the input's tokens, then EOF repeated
StreamTok(toks, i) == IF i \in DOMAIN toks THEN toks[i] ELSE Token(EOF, <<>>)


\* the input string is a well-formed nested name list (chapter 2, LL(1))
IsNameList(s) ==
    /\ AllTerminals(s)
    /\ \A i \in DOMAIN s : s[i] # ChEquals
    /\ ch2_IsList(RefTokens(s), 1, Len(RefTokens(s)))

\* the input string is a well-formed list of the extended grammar (LL(k))
IsKList(s) == AllTerminals(s) /\ IsList(RefTokens(s), 1, Len(RefTokens(s)))

\* what the reference grammar and the lexer say of the input string s; it is
\* computed once, when the input is chosen
InputFacts(s) ==
    [terminals |-> AllTerminals(s),
     inGrammar |-> InGrammar(s),
     assignForm |-> IsAssignInput(s),
     refTokens |-> IF AllTerminals(s) THEN RefTokens(s) ELSE <<>>,
     lexValid |-> LexValid(s),
     lexTokens |-> LexRun(NewLexer(s)).toks,
     nameList |-> IsNameList(s),
     kList |-> IsKList(s),
     hasAssign |-> \E i \in DOMAIN s : s[i] = ChEquals,
     ch2_lexValid |-> ch2_LexRun(ch2_NewLexer(s)).ok,
     ch2_lexTokens |-> ch2_LexRun(ch2_NewLexer(s)).toks]

-----------------------------------------------------------------------------
(* History record *)

SpecIdle ==
    [kind |-> "none", state |-> "idle", pos0 |-> 0, markers0 |-> <<>>,
     tok0 |-> ZeroToken, buf0 |-> <<>>, releases |-> 0, success |-> TRUE,
     endPos |-> 0, cause |-> nil]

NoMatch ==
    [valid |-> FALSE, typ |-> EOF, hit |-> FALSE, before |-> ZeroToken,
     after |-> ZeroToken, c |-> 0, err0 |-> nil, err1 |-> nil, lexSame |-> TRUE]

HistInit(s) ==
    [ref |-> InputFacts(s),  \* the reference facts of the input
     nexts |-> 0, lexErrs |-> 0, resets |-> 0,
     statCalled |-> FALSE,   \* the client has called stat()
     spec |-> SpecIdle,      \* the speculate call in progress or just returned
     trials |-> <<>>,        \* the speculate calls that returned, in order
     commit |-> "none",      \* the alternative stat() parses for real
     marks |-> <<>>,         \* per unreleased mark(): position and token captured
     lastRelease |-> [done |-> FALSE, want |-> 0, got |-> 0, depth |-> 0],
     consumed |-> 0,         \* tokens consumed, net of rollbacks
     lastPeek |-> [valid |-> FALSE, n |-> 0, tok |-> ZeroToken, c |-> 0, resets |-> 0],
     nops |-> 0,             \* calls made by the client so far
     failed |-> FALSE,       \* Parser / LLkParser: a failure was recorded in err
     lastFailure |-> nil,    \* the failure recorded last
     lastMatch |-> NoMatch]  \* the last call of Parser.match / LLkParser.match

\* the parser record of the current state
Cur ==
    [lex |-> lex, lookahead |-> lookahead, pos |-> pos, markers |-> markers,
     panicv |-> panicv, nexts |-> hist.nexts, lexErrs |-> hist.lexErrs,
     resets |-> hist.resets]

Store(P) ==
    /\ lex' = P.lex
    /\ lookahead' = P.lookahead
    /\ pos' = P.pos
    /\ markers' = P.markers
    /\ panicv' = P.panicv

Counted(h, P) ==
    [h EXCEPT !.nexts = P.nexts, !.lexErrs = P.lexErrs, !.resets = P.resets]

TokAt(P) == IF P.pos + 1 \in DOMAIN P.lookahead THEN P.lookahead[P.pos + 1] ELSE ZeroToken

\* history of a mark() made in P
HMark(h, P) ==
    [h EXCEPT !.marks = <<[pos |-> P.pos, tok |-> TokAt(P), c |-> h.consumed]>> \o @]

\* history of a release() that took P to Q
HRelease(h, P, Q) ==
    IF h.marks = <<>> \/ Q.panicv # nil
    THEN h
    ELSE [h EXCEPT !.marks = Tail(@),
                   !.consumed = Head(h.marks).c,
                   !.lastRelease = [done |-> TRUE, want |-> Head(h.marks).pos,
                                    got |-> Q.pos, depth |-> Len(Q.markers)]]

-----------------------------------------------------------------------------
(* Initial states: the lexer is constructed, the parser is not yet *)

\* the clients whose lexer is the chapter 2 lexer
Ch2Clients == {"lex2", "ll1"}

InitFor(c, S) ==
    /\ client = c
    /\ input \in S
    /\ lex = IF c \in Ch2Clients THEN ch2_NewLexer(input) ELSE NewLexer(input)
    /\ lookahead = <<>>
    /\ pos = 0
    /\ markers = <<>>
    /\ panicv = nil
    /\ ctl = <<>>
    /\ ret = FALSE
    /\ outcome = "new"
    /\ out = <<>>
    /\ buf = <<>>
    /\ k = 0
    /\ err = nil
    /\ hist = HistInit(input)

\* NewBacktrackingParser(l): p.sync(1).  A lexical error at the first token
\* panics out of the constructor.
NewBacktrackingParser ==
    /\ client \in {"stat", "ops"}
    /\ outcome = "new"
    /\ \E P \in {sync(Cur, 1)} :
           /\ Store(P)
           /\ hist' = Counted(hist, P)
           /\ outcome' = IF P.panicv # nil THEN "panicked" ELSE "ready"
    /\ UNCHANGED <<input, buf, k, err, ctl, ret, client, out>>

-----------------------------------------------------------------------------
(* The client that runs parser.stat() *)

Frame(op, pc, typ) == [op |-> op, pc |-> pc, typ |-> typ]
Call(op) == Frame(op, 0, EOF)
At(op, pc) == Frame(op, pc, EOF)
CallMatch(typ) == Frame("match", 0, typ)

Top(op, pc) ==
    /\ client = "stat"
    /\ outcome = "running"
    /\ panicv = nil
    /\ ctl # <<>>
    /\ Head(ctl).op = op
    /\ Head(ctl).pc = pc

CallStat ==
    /\ client = "stat"
    /\ outcome = "ready"
    /\ outcome' = "running"
    /\ ctl' = <<Call("stat")>>
    /\ hist' = [hist EXCEPT !.statCalled = TRUE]
    /\ UNCHANGED <<input, buf, k, err, lex, lookahead, pos, markers, panicv, ret, client, out>>

SpecDone(h) == [h EXCEPT !.spec.state = "idle"]

stat ==
    \/ /\ Top("stat", 0)
       /\ ctl' = <<Call("speculateList"), At("stat", 1)>> \o Tail(ctl)
       /\ UNCHANGED <<input, buf, k, err, lex, lookahead, pos, markers, panicv, ret, outcome, client, out, hist>>
    \/ /\ Top("stat", 1)
       /\ ret
       /\ ctl' = <<Call("list"), CallMatch(EOF), At("stat", 3)>> \o Tail(ctl)
       /\ hist' = [SpecDone(hist) EXCEPT !.commit = "list"]
       /\ UNCHANGED <<input, buf, k, err, lex, lookahead, pos, markers, panicv, ret, outcome, client, out>>
    \/ /\ Top("stat", 1)
       /\ ~ret
       /\ ctl' = <<Call("speculateAssign"), At("stat", 2)>> \o Tail(ctl)
       /\ hist' = SpecDone(hist)
       /\ UNCHANGED <<input, buf, k, err, lex, lookahead, pos, markers, panicv, ret, outcome, client, out>>
    \/ /\ Top("stat", 2)
       /\ ret
       /\ ctl' = <<Call("assign"), CallMatch(EOF), At("stat", 3)>> \o Tail(ctl)
       /\ hist' = [SpecDone(hist) EXCEPT !.commit = "assign"]
       /\ UNCHANGED <<input, buf, k, err, lex, lookahead, pos, markers, panicv, ret, outcome, client, out>>
    \/ /\ Top("stat", 2)
       /\ ~ret
       /\ \E r \in {peek(Cur, 1)} :
          \E P \in {IF r.p.panicv # nil
                    THEN r.p
                    ELSE [r.p EXCEPT !.panicv = SyntaxErrorAt("stat", {LBrack}, r.tok.Type)]} :
              /\ Store(P)
              /\ hist' = Counted(SpecDone(hist), P)
       /\ UNCHANGED <<input, buf, k, err, ctl, ret, outcome, client, out>>
    \/ /\ Top("stat", 3)
       /\ ctl' = Tail(ctl)
       /\ outcome' = "returned"
       /\ UNCHANGED <<input, buf, k, err, lex, lookahead, pos, markers, panicv, ret, client, out, hist>>

\* entry of speculateList / speculateAssign: success := true; p.mark()
SpecEnter(kind, body) ==
    \E P \in {mark(Cur)} :
        /\ Store(P)
        /\ ctl' = body \o <<At(Head(ctl).op, 1)>> \o Tail(ctl)
        /\ hist' = [HMark(hist, Cur) EXCEPT
                      !.spec = [kind |-> kind, state |-> "running", pos0 |-> pos,
                                markers0 |-> markers, tok0 |-> TokAt(Cur),
                                buf0 |-> lookahead, releases |-> 0, success |-> TRUE,
                                endPos |-> pos, cause |-> nil]]
        /\ UNCHANGED <<input, buf, k, err, ret, outcome, client, out>>

\* normal end of speculateList / speculateAssign: p.release(); return success
SpecLeave ==
    \E P \in {release(Cur)} :
    \E h \in {[HRelease(hist, Cur, P) EXCEPT !.spec.releases = @ + 1, !.spec.endPos = pos]} :
        /\ Store(P)
        /\ IF P.panicv # nil
           THEN /\ hist' = h
                /\ UNCHANGED <<ctl, ret>>
           ELSE /\ ctl' = Tail(ctl)
                /\ ret' = hist.spec.success
                /\ hist' = [h EXCEPT !.spec.state = "done",
                                     !.trials = Append(@, [kind |-> h.spec.kind,
                                                           success |-> h.spec.success,
                                                           startPos |-> h.spec.pos0,
                                                           endPos |-> pos,
                                                           cause |-> h.spec.cause])]
        /\ UNCHANGED <<input, buf, k, err, outcome, client, out>>

\* speculateAssign without its deferred recover()
HandlersOnlyList == {i \in DOMAIN ctl : ctl[i].op = "speculateList" /\ ctl[i].pc = 1}

\* index in ctl of the innermost speculate call whose defer is registered
Handlers == {i \in DOMAIN ctl : ctl[i].op \in {"speculateList", "speculateAssign"} /\ ctl[i].pc = 1}
Handler == CHOOSE i \in Handlers : \A j \in Handlers : i <= j

Panicking(op) ==
    /\ client = "stat"
    /\ outcome = "running"
    /\ panicv # nil
    /\ Handlers # {}
    /\ ctl[Handler].op = op

\* the deferred function of speculateList / speculateAssign on the panic path:
\* recover() returns the panic value, success = false, p.release(), and the
\* call returns success
SpecRecover ==
    \E P \in {release([Cur EXCEPT !.panicv = nil])} :
    \E h \in {[HRelease(hist, Cur, P) EXCEPT !.spec.releases = @ + 1, !.spec.endPos = pos,
                                             !.spec.success = FALSE, !.spec.cause = panicv]} :
        /\ Store(P)
        /\ ctl' = SubSeq(ctl, Handler + 1, Len(ctl))
        /\ IF P.panicv # nil
           THEN /\ hist' = h
                /\ UNCHANGED ret
           ELSE /\ ret' = FALSE
                /\ hist' = [h EXCEPT !.spec.state = "done",
                                     !.trials = Append(@, [kind |-> h.spec.kind,
                                                           success |-> FALSE,
                                                           startPos |-> h.spec.pos0,
                                                           endPos |-> pos,
                                                           cause |-> panicv])]
        /\ UNCHANGED <<input, buf, k, err, outcome, client, out>>

speculateList ==
    \/ /\ Top("speculateList", 0)
       /\ SpecEnter("list", <<Call("list"), CallMatch(EOF)>>)
    \/ /\ Top("speculateList", 1)
       /\ SpecLeave
    \/ /\ Panicking("speculateList")
       /\ SpecRecover

speculateAssign ==
    \/ /\ Top("speculateAssign", 0)
       /\ SpecEnter("assign", <<Call("assign"), CallMatch(EOF)>>)
    \/ /\ Top("speculateAssign", 1)
       /\ SpecLeave
    \/ /\ Panicking("speculateAssign")
       /\ SpecRecover

\* a panic that no deferred function recovers leaves stat()
Unwind ==
    /\ client = "stat"
    /\ outcome = "running"
    /\ panicv # nil
    /\ Handlers = {}
    /\ ctl' = <<>>
    /\ outcome' = "panicked"
    /\ UNCHANGED <<input, buf, k, err, lex, lookahead, pos, markers, panicv, ret, client, out, hist>>

assign ==
    /\ Top("assign", 0)
    /\ ctl' = <<Call("list"), CallMatch(Equals), Call("list")>> \o Tail(ctl)
    /\ UNCHANGED <<input, buf, k, err, lex, lookahead, pos, markers, panicv, ret, outcome, client, out, hist>>

list ==
    /\ Top("list", 0)
    /\ ctl' = <<CallMatch(LBrack), Call("elements"), CallMatch(RBrack)>> \o Tail(ctl)
    /\ UNCHANGED <<input, buf, k, err, lex, lookahead, pos, markers, panicv, ret, outcome, client, out, hist>>

elements ==
    \/ /\ Top("elements", 0)
       /\ ctl' = <<Call("element"), At("elements", 1)>> \o Tail(ctl)
       /\ UNCHANGED <<input, buf, k, err, lex, lookahead, pos, markers, panicv, ret, outcome, client, out, hist>>
    \/ /\ Top("elements", 1)
       /\ \E r \in {peek(Cur, 1)} :
              /\ Store(r.p)
              /\ hist' = Counted(hist, r.p)
              /\ ctl' = IF r.p.panicv # nil
                        THEN ctl
                        ELSE IF r.tok.Type = Comma
                             THEN <<CallMatch(Comma), Call("element"), At("elements", 1)>> \o Tail(ctl)
                             ELSE Tail(ctl)
       /\ UNCHANGED <<input, buf, k, err, ret, outcome, client, out>>

\* element() entering list() on any '[' (the decision of the LL(k) parser)
elementBranchAnyLBrack(first, second) ==
    IF first.Type = Name /\ second.Type = Equals
    THEN "assignment"
    ELSE IF first.Type = Name
         THEN "name"
         ELSE IF first.Type = LBrack
              THEN "list"
              ELSE "error"

\* the branch element() takes on the tokens first and second
elementBranch(first, second) ==
    IF first.Type = Name /\ second.Type = Equals
    THEN "assignment"
    ELSE IF first.Type = Name
         THEN "name"
         ELSE IF first.Type = LBrack /\ second.Type # EOF
              THEN "list"
              ELSE "error"

element ==
    /\ Top("element", 0)
    /\ \E r1 \in {peek(Cur, 1)} :
       \E r2 \in {IF r1.p.panicv # nil THEN r1 ELSE peek(r1.p, 2)} :
       \E b \in {elementBranch(r1.tok, r2.tok)} :
       \E P \in {IF r2.p.panicv = nil /\ b = "error"
                 THEN [r2.p EXCEPT !.panicv = SyntaxErrorAt("element", {Name, LBrack}, r1.tok.Type)]
                 ELSE r2.p} :
           /\ Store(P)
           /\ hist' = Counted(hist, P)
           /\ ctl' = IF P.panicv # nil
                     THEN ctl
                     ELSE CASE b = "assignment" ->
                                 <<CallMatch(Name), CallMatch(Equals), CallMatch(Name)>> \o Tail(ctl)
                            [] b = "name" -> <<CallMatch(Name)>> \o Tail(ctl)
                            [] b = "list" -> <<Call("list")>> \o Tail(ctl)
    /\ UNCHANGED <<input, buf, k, err, ret, outcome, client, out>>

Match ==
    /\ Top("match", 0)
    /\ \E P \in {match(Cur, Head(ctl).typ)} :
           /\ Store(P)
           /\ hist' = Counted(hist, P)
           /\ ctl' = IF P.panicv # nil THEN ctl ELSE Tail(ctl)
    /\ UNCHANGED <<input, buf, k, err, ret, outcome, client, out>>

Init == InitFor("stat", Inputs)

Next ==
    \/ NewBacktrackingParser
    \/ CallStat
    \/ stat
    \/ speculateList
    \/ speculateAssign
    \/ Unwind
    \/ assign
    \/ list
    \/ elements
    \/ element
    \/ Match

Spec == Init /\ [][Next]_vars

\* inputs over the characters that tell the runs of stat() apart: the four
\* punctuation marks, a letter, and a character of no token
TermStrings(n) ==
    UNION {[1..m -> {ChLBrack, ChRBrack, ChComma, ChEquals, ChLowerA, ChDigit}] : m \in 0..n}

TermInputs ==
    TermStrings(MaxLen)
    \cup {Wrap(e) : e \in TermStrings(MaxInner)}
    \cup {Wrap(e) \o <<ChEquals>> \o Wrap(f) : e \in TermStrings(MaxSide), f \in TermStrings(MaxSide)}

InitTerm == InitFor("stat", TermInputs)

\* runs of stat() that are never stopped while a step of the program is
\* possible: the test's goroutine runs NewBacktrackingParser and stat() to
\* their end
SpecTerm == InitTerm /\ [][Next]_vars /\ WF_vars(Next)

\* the position of the cursor in the lexer's token stream: the tokens Next
\* has delivered less the buffered tokens from the cursor on
AbsPos == hist.nexts - hist.lexErrs - (Len(lookahead) - pos)

\* the calls of list() that have not yet matched their ']'
OpenLists == Cardinality({i \in DOMAIN ctl : ctl[i].op = "match" /\ ctl[i].typ = RBrack})

-----------------------------------------------------------------------------
(* The client that calls the buffer operations directly, in any order *)

TokenTypes == {EOF, LBrack, RBrack, Name, Comma, Equals}

OpsReady ==
    /\ client = "ops"
    /\ outcome = "ready"
    /\ panicv = nil
    /\ hist.nops < MaxOps

\* a panic of a direct call ends the session
OpsOutcome(P) == IF P.panicv # nil THEN "panicked" ELSE "ready"

opPeek ==
    /\ OpsReady
    /\ \E n \in 1..MaxPeek :
       \E r \in {peek(Cur, n)} :
           /\ Store(r.p)
           /\ outcome' = OpsOutcome(r.p)
           /\ hist' = [Counted(hist, r.p) EXCEPT
                         !.nops = @ + 1,
                         !.lastPeek = [valid |-> r.p.panicv = nil, n |-> n,
                                       tok |-> r.tok, c |-> hist.consumed,
                                       resets |-> r.p.resets]]
    /\ UNCHANGED <<input, buf, k, err, ctl, ret, client, out>>

opMatch ==
    /\ OpsReady
    /\ \E typ \in TokenTypes :
       \E P \in {match(Cur, typ)} :
           /\ Store(P)
           /\ outcome' = OpsOutcome(P)
           /\ hist' = [Counted(hist, P) EXCEPT
                         !.nops = @ + 1,
                         !.consumed = IF P.panicv = nil THEN @ + 1 ELSE @]
    /\ UNCHANGED <<input, buf, k, err, ctl, ret, client, out>>

opMark ==
    /\ OpsReady
    /\ \E P \in {mark(Cur)} :
           /\ Store(P)
           /\ outcome' = OpsOutcome(P)
           /\ hist' = [HMark(hist, Cur) EXCEPT !.nops = @ + 1]
    /\ UNCHANGED <<input, buf, k, err, ctl, ret, client, out>>

opRelease ==
    /\ OpsReady
    /\ markers # <<>>
    /\ \E P \in {release(Cur)} :
           /\ Store(P)
           /\ outcome' = OpsOutcome(P)
           /\ hist' = [HRelease(hist, Cur, P) EXCEPT !.nops = @ + 1]
    /\ UNCHANGED <<input, buf, k, err, ctl, ret, client, out>>

InitOps == InitFor("ops", Strings(MaxOpsLen))

NextOps ==
    \/ NewBacktrackingParser
    \/ opPeek
    \/ opMatch
    \/ opMark
    \/ opRelease

SpecOps == InitOps /\ [][NextOps]_vars

\* either client
InitAll == Init \/ InitOps

NextAll == Next \/ NextOps

SpecAll == InitAll /\ [][NextAll]_vars

-----------------------------------------------------------------------------
(* The client of the lexer: it calls Next again and again, and records with *)
(* each result what Scan() answered before the call                         *)

ClientNext ==
    /\ client = "lex"
    /\ lex.stopped => hist.nops < MaxExtra
    /\ \E r \in {LexNext(lex)} :
           /\ lex' = r.lex
           /\ out' = Append(out, [tok |-> r.tok, err |-> r.err, scan |-> Scan(lex)])
    /\ hist' = [hist EXCEPT !.nops = IF lex.stopped THEN @ + 1 ELSE @]
    /\ UNCHANGED <<input, buf, k, err, lookahead, pos, markers, panicv, ctl, ret, outcome, client>>

InitLex == InitFor("lex", Inputs)

NextLex == ClientNext

SpecLex == InitLex /\ [][NextLex]_vars

\* the same client over the chapter 2 lexer, which has no Scan(): it goes on
\* calling Next after the first token of type EOF, as Parser.consume does
ch2_ClientNext ==
    /\ client = "lex2"
    /\ (out # <<>> /\ out[Len(out)].tok.Type = EOF) => hist.nops < MaxExtra
    /\ \E r \in {ch2_Next(lex)} :
           /\ lex' = r.lex
           /\ out' = Append(out, [tok |-> r.tok, err |-> r.err, scan |-> TRUE])
    /\ hist' = [hist EXCEPT !.nops = IF out # <<>> /\ out[Len(out)].tok.Type = EOF
                                     THEN @ + 1 ELSE @]
    /\ UNCHANGED <<input, buf, k, err, lookahead, pos, markers, panicv, ctl, ret, outcome, client>>

InitLexers == InitLex \/ InitFor("lex2", Inputs)

NextLexers == ClientNext \/ ch2_ClientNext

\* both lexers
SpecLexers == InitLexers /\ [][NextLexers]_vars

IsPrefix(a, b) == Len(a) <= Len(b) /\ SubSeq(b, 1, Len(a)) = a

JustReturned == client = "stat" /\ hist.spec.state = "done"

-----------------------------------------------------------------------------
(* Parser (chapter 2): the LL(1) recognizer.  It records failures in err   *)
(* and goes on.  The operations act on a record P = [lex, lookahead, err]. *)

Parser_Cur == [lex |-> lex, lookahead |-> lookahead, err |-> err]

Parser_Store(P) ==
    /\ lex' = P.lex
    /\ lookahead' = P.lookahead
    /\ err' = P.err

\* the rest of consume after tok, err := p.input.Next() returned r
Parser_consumeTok(P, r) ==
    IF r.tok.Type = EOF
    THEN [P EXCEPT !.lex = r.lex]
    ELSE [P EXCEPT !.lex = r.lex, !.lookahead = r.tok, !.err = r.err]

Parser_consume(P) == Parser_consumeTok(P, ch2_Next(P.lex))

Parser_match(P, typ) ==
    IF P.lookahead.Type = typ
    THEN Parser_consume(P)
    ELSE [P EXCEPT !.err = SyntaxErrorAt("match", {typ}, P.lookahead.Type)]

\* history of a failure recorded in err
HFailure(h, e) == [h EXCEPT !.failed = TRUE, !.lastFailure = e]

\* the count of tokens matched, kept no larger than the length of the input
\* plus one (every later position of the token stream holds EOF)
Matched(c) == IF c < Len(input) + 1 THEN c + 1 ELSE c

\* history of a call of match(typ) that found the token before as lookahead
\* and e0 as err, and left the token after as lookahead and e as err
HMatch(h, typ, before, after, e0, e, same) ==
    [(IF before.Type = typ THEN h ELSE HFailure(h, e)) EXCEPT
        !.consumed = IF before.Type = typ THEN Matched(@) ELSE @,
        !.lastMatch = [valid |-> TRUE, typ |-> typ, hit |-> before.Type = typ,
                       before |-> before, after |-> after, c |-> h.consumed,
                       err0 |-> e0, err1 |-> e, lexSame |-> same]]

\* NewParser(l): p.lookahead, p.err = p.input.Next()
NewParser ==
    /\ client = "ll1"
    /\ outcome = "new"
    /\ \E r \in {ch2_Next(lex)} :
           /\ lex' = r.lex
           /\ lookahead' = r.tok
           /\ err' = r.err
    /\ outcome' = "ready"
    /\ UNCHANGED <<input, buf, k, pos, markers, panicv, ctl, ret, client, out, hist>>

Parser_Top(op, pc) ==
    /\ client = "ll1"
    /\ outcome = "running"
    /\ ctl # <<>>
    /\ Head(ctl).op = op
    /\ Head(ctl).pc = pc

\* the test calls p.list() and then reads p.err
Parser_CallList ==
    /\ client = "ll1"
    /\ outcome = "ready"
    /\ outcome' = "running"
    /\ ctl' = <<Call("list"), Call("return")>>
    /\ UNCHANGED <<input, buf, k, err, lex, lookahead, pos, markers, panicv, ret, client, out, hist>>

Parser_Return ==
    /\ Parser_Top("return", 0)
    /\ ctl' = Tail(ctl)
    /\ outcome' = "returned"
    /\ UNCHANGED <<input, buf, k, err, lex, lookahead, pos, markers, panicv, ret, client, out, hist>>

\* list().  When consume never replaces a lookahead of '[' (the lexer is at
\* the end of the input) the recursion list, elements, element, list goes on
\* until the Go runtime ends the program with a stack overflow; the run of
\* the model ends as "overflow" once the stack holds MaxStack frames.
Parser_list ==
    \/ /\ Parser_Top("list", 0)
       /\ Len(ctl) < MaxStack
       /\ ctl' = <<CallMatch(LBrack), Call("elements"), CallMatch(RBrack)>> \o Tail(ctl)
       /\ UNCHANGED <<input, buf, k, err, lex, lookahead, pos, markers, panicv, ret, outcome, client, out, hist>>
    \/ /\ Parser_Top("list", 0)
       /\ Len(ctl) >= MaxStack
       /\ ctl' = <<>>
       /\ outcome' = "overflow"
       /\ UNCHANGED <<input, buf, k, err, lex, lookahead, pos, markers, panicv, ret, client, out, hist>>

Parser_elements ==
    \/ /\ Parser_Top("elements", 0)
       /\ ctl' = <<Call("element"), At("elements", 1)>> \o Tail(ctl)
       /\ UNCHANGED <<input, buf, k, err, lex, lookahead, pos, markers, panicv, ret, outcome, client, out, hist>>
    \/ /\ Parser_Top("elements", 1)
       /\ ctl' = IF lookahead.Type = Comma
                 THEN <<CallMatch(Comma), Call("element"), At("elements", 1)>> \o Tail(ctl)
                 ELSE Tail(ctl)
       /\ UNCHANGED <<input, buf, k, err, lex, lookahead, pos, markers, panicv, ret, outcome, client, out, hist>>

Parser_element ==
    /\ Parser_Top("element", 0)
    /\ CASE lookahead.Type = Name ->
               /\ ctl' = <<CallMatch(Name)>> \o Tail(ctl)
               /\ UNCHANGED <<err, hist>>
         [] lookahead.Type = LBrack ->
               /\ ctl' = <<Call("list")>> \o Tail(ctl)
               /\ UNCHANGED <<err, hist>>
         [] OTHER ->
               /\ ctl' = Tail(ctl)
               /\ err' = SyntaxErrorAt("element", {Name, LBrack}, lookahead.Type)
               /\ hist' = HFailure(hist, err')
    /\ UNCHANGED <<input, buf, k, lex, lookahead, pos, markers, panicv, ret, outcome, client, out>>

Parser_Match ==
    /\ Parser_Top("match", 0)
    /\ \E P \in {Parser_match(Parser_Cur, Head(ctl).typ)} :
           /\ Parser_Store(P)
           /\ hist' = HMatch(hist, Head(ctl).typ, lookahead, P.lookahead, err, P.err, P.lex = lex)
    /\ ctl' = Tail(ctl)
    /\ UNCHANGED <<input, buf, k, pos, markers, panicv, ret, outcome, client, out>>

InitParser == InitFor("ll1", Inputs)

NextParser ==
    \/ NewParser
    \/ Parser_CallList
    \/ Parser_Return
    \/ Parser_list
    \/ Parser_elements
    \/ Parser_element
    \/ Parser_Match

SpecParser == InitParser /\ [][NextParser]_vars

\* the run of the test: the one goroutine goes on as long as it has a step
SpecParserTerm == SpecParser /\ WF_vars(NextParser)

-----------------------------------------------------------------------------
(* LLkParser (chapter 2): the LL(k) recognizer over a circular buffer of k  *)
(* tokens.  Its grammar has the element NAME '=' NAME; the lexer that has   *)
(* the Equals token is the chapter 3 lexer.  The operations act on a record *)
(* P = [lex, buf, k, pos, err].                                             *)

LLk_Cur == [lex |-> lex, buf |-> buf, k |-> k, pos |-> pos, err |-> err]

LLk_Store(P) ==
    /\ lex' = P.lex
    /\ buf' = P.buf
    /\ k' = P.k
    /\ pos' = P.pos
    /\ err' = P.err

LLk_lookaheadOffByOne(P, n) == P.buf[((P.pos + n) % P.k) + 1]

LLk_lookahead(P, n) == P.buf[((P.pos + n - 1) % P.k) + 1]

\* consume storing whatever error Next returned
LLk_consumeTokKeepsErr(P, r) ==
    [P EXCEPT !.lex = r.lex,
              !.buf[P.pos + 1] = r.tok,
              !.pos = (P.pos + 1) % P.k,
              !.err = r.err]

\* the rest of consume after tok, err := p.input.Next() returned r
LLk_consumeTok(P, r) ==
    [P EXCEPT !.lex = r.lex,
              !.buf[P.pos + 1] = r.tok,
              !.pos = (P.pos + 1) % P.k,
              !.err = IF r.tok.Type # EOF THEN r.err ELSE @]

LLk_consume(P) == LLk_consumeTok(P, LexNext(P.lex))

LLk_matchAnyType(P, typ) == LLk_consume(P)

LLk_match(P, typ) ==
    IF LLk_lookahead(P, 1).Type = typ
    THEN LLk_consume(P)
    ELSE [P EXCEPT !.err = SyntaxErrorAt("match", {typ}, LLk_lookahead(P, 1).Type)]

\* for range n { p.consume() }
RECURSIVE LLk_fill(_, _)
LLk_fill(P, n) == IF n = 0 THEN P ELSE LLk_fill(LLk_consume(P), n - 1)

\* the values of k a client constructs the parser with: the test uses 2 and
\* proposes 1; a client of match and lookahead alone uses 1..MaxK
LLk_Ks == IF client = "llk" THEN 1..2 ELSE 1..MaxK

\* NewLLkParser(l, k): buf := make([]Token, k), then k calls of consume
NewLLkParser ==
    /\ client \in {"llk", "llkops"}
    /\ outcome = "new"
    /\ \E kk \in LLk_Ks :
           LLk_Store(LLk_fill([lex |-> lex, buf |-> [i \in 1..kk |-> ZeroToken],
                               k |-> kk, pos |-> 0, err |-> nil], kk))
    /\ outcome' = "ready"
    /\ UNCHANGED <<input, lookahead, markers, panicv, ctl, ret, client, out, hist>>

LLk_Top(op, pc) ==
    /\ client = "llk"
    /\ outcome = "running"
    /\ ctl # <<>>
    /\ Head(ctl).op = op
    /\ Head(ctl).pc = pc

\* the test calls p.list() and then reads p.err
LLk_CallList ==
    /\ client = "llk"
    /\ outcome = "ready"
    /\ outcome' = "running"
    /\ ctl' = <<Call("list"), Call("return")>>
    /\ UNCHANGED <<input, buf, k, err, lex, lookahead, pos, markers, panicv, ret, client, out, hist>>

LLk_Return ==
    /\ LLk_Top("return", 0)
    /\ ctl' = Tail(ctl)
    /\ outcome' = "returned"
    /\ UNCHANGED <<input, buf, k, err, lex, lookahead, pos, markers, panicv, ret, client, out, hist>>

LLk_list ==
    /\ LLk_Top("list", 0)
    /\ ctl' = <<CallMatch(LBrack), Call("elements"), CallMatch(RBrack)>> \o Tail(ctl)
    /\ UNCHANGED <<input, buf, k, err, lex, lookahead, pos, markers, panicv, ret, outcome, client, out, hist>>

LLk_elements ==
    \/ /\ LLk_Top("elements", 0)
       /\ ctl' = <<Call("element"), At("elements", 1)>> \o Tail(ctl)
       /\ UNCHANGED <<input, buf, k, err, lex, lookahead, pos, markers, panicv, ret, outcome, client, out, hist>>
    \/ /\ LLk_Top("elements", 1)
       /\ ctl' = IF LLk_lookahead(LLk_Cur, 1).Type = Comma
                 THEN <<CallMatch(Comma), Call("element"), At("elements", 1)>> \o Tail(ctl)
                 ELSE Tail(ctl)
       /\ UNCHANGED <<input, buf, k, err, lex, lookahead, pos, markers, panicv, ret, outcome, client, out, hist>>

\* the branch element() takes on first = lookahead(1), second = lookahead(2)
LLk_elementBranch(first, second) ==
    IF first.Type = Name /\ second.Type = Equals
    THEN "assignment"
    ELSE IF first.Type = Name
         THEN "name"
         ELSE IF first.Type = LBrack
              THEN "list"
              ELSE "error"

LLk_element ==
    /\ LLk_Top("element", 0)
    /\ \E b \in {LLk_elementBranch(LLk_lookahead(LLk_Cur, 1), LLk_lookahead(LLk_Cur, 2))} :
         CASE b = "assignment" ->
               /\ ctl' = <<CallMatch(Name), CallMatch(Equals), CallMatch(Name)>> \o Tail(ctl)
               /\ UNCHANGED <<err, hist>>
           [] b = "name" ->
               /\ ctl' = <<CallMatch(Name)>> \o Tail(ctl)
               /\ UNCHANGED <<err, hist>>
           [] b = "list" ->
               /\ ctl' = <<Call("list")>> \o Tail(ctl)
               /\ UNCHANGED <<err, hist>>
           [] b = "error" ->
               /\ ctl' = Tail(ctl)
               /\ err' = SyntaxErrorAt("element", {Name, LBrack}, LLk_lookahead(LLk_Cur, 1).Type)
               /\ hist' = HFailure(hist, err')
    /\ UNCHANGED <<input, buf, k, lex, lookahead, pos, markers, panicv, ret, outcome, client, out>>

LLk_Match ==
    /\ LLk_Top("match", 0)
    /\ \E P \in {LLk_match(LLk_Cur, Head(ctl).typ)} :
           /\ LLk_Store(P)
           /\ hist' = HMatch(hist, Head(ctl).typ, LLk_lookahead(LLk_Cur, 1),
                             LLk_lookahead(P, 1), err, P.err, P.lex = lex /\ P.pos = pos)
    /\ ctl' = Tail(ctl)
    /\ UNCHANGED <<input, lookahead, markers, panicv, ret, outcome, client, out>>

InitLLk == InitFor("llk", Inputs)

NextLLk ==
    \/ NewLLkParser
    \/ LLk_CallList
    \/ LLk_Return
    \/ LLk_list
    \/ LLk_elements
    \/ LLk_element
    \/ LLk_Match

SpecLLk == InitLLk /\ [][NextLLk]_vars

\* the two parsers of chapter 2, each running list()
InitBaseline == InitParser \/ InitLLk

NextBaseline == NextParser \/ NextLLk

SpecBaseline == InitBaseline /\ [][NextBaseline]_vars

\* a client that calls match directly, with any expected type, in any order
LLk_opMatch ==
    /\ client = "llkops"
    /\ outcome = "ready"
    /\ hist.nops < MaxOps
    /\ \E typ \in TokenTypes :
       \E P \in {LLk_match(LLk_Cur, typ)} :
           /\ LLk_Store(P)
           /\ hist' = [hist EXCEPT
                         !.nops = @ + 1,
                         !.consumed = IF LLk_lookahead(LLk_Cur, 1).Type = typ
                                      THEN Matched(@) ELSE @]
    /\ UNCHANGED <<input, lookahead, markers, panicv, ctl, ret, outcome, client, out>>

InitLLkOps == InitFor("llkops", Strings(MaxOpsLen))

NextLLkOps == NewLLkParser \/ LLk_opMatch

SpecLLkOps == InitLLkOps /\ [][NextLLkOps]_vars

\* either client of the LLkParser
InitLLkAll == InitLLk \/ InitLLkOps

NextLLkAll == NextLLk \/ NextLLkOps

SpecLLkAll == InitLLkAll /\ [][NextLLkAll]_vars

\* the token stream of the lexer the running parser reads, when the lexer
\* accepts the input
BaselineLexValid == IF client = "ll1" THEN hist.ref.ch2_lexValid ELSE hist.ref.lexValid

BaselineTokens == IF client = "ll1" THEN hist.ref.ch2_lexTokens ELSE hist.ref.lexTokens

-----------------------------------------------------------------------------
(* The backtracking parser over a buffer of fixed size (part_003): k slots *)
(* filled by consume, which wraps pos to 0 at the end of the buffer, and a  *)
(* peek that wraps its index only when it equals the length of the buffer.  *)
(* It reads the lexer of chapter 3 and panics on the lexer's error.  The    *)
(* operations act on a record P = [lex, lookahead, pos, panicv].            *)

Fixed_Cur == [lex |-> lex, lookahead |-> lookahead, pos |-> pos, panicv |-> panicv]

Fixed_Store(P) ==
    /\ lex' = P.lex
    /\ lookahead' = P.lookahead
    /\ pos' = P.pos
    /\ panicv' = P.panicv

\* index := p.pos + n - 1; if index == len(p.lookahead) { index = 0 }
Fixed_peekIndex(P, n) ==
    IF P.pos + n - 1 = Len(P.lookahead) THEN 0 ELSE P.pos + n - 1

\* p.lookahead[index]: an index outside the buffer is a run-time panic
Fixed_peek(P, n) ==
    IF Fixed_peekIndex(P, n) + 1 \in DOMAIN P.lookahead
    THEN [p |-> P, tok |-> P.lookahead[Fixed_peekIndex(P, n) + 1]]
    ELSE [p |-> [P EXCEPT !.panicv = RuntimeError], tok |-> ZeroToken]

\* the rest of consume after tok, err := p.input.Next() returned r
Fixed_consumeTok(P, r) ==
    IF r.err # nil
    THEN [P EXCEPT !.lex = r.lex, !.panicv = r.err]
    ELSE [P EXCEPT !.lex = r.lex,
                   !.lookahead[P.pos + 1] = r.tok,
                   !.pos = IF P.pos + 1 = Len(P.lookahead) THEN 0 ELSE P.pos + 1]

Fixed_consume(P) == Fixed_consumeTok(P, LexNext(P.lex))

Fixed_matchTok(r, typ) ==
    IF r.p.panicv # nil
    THEN r.p
    ELSE IF r.tok.Type = typ
         THEN Fixed_consume(r.p)
         ELSE [r.p EXCEPT !.panicv = SyntaxErrorAt("match", {typ}, r.tok.Type)]

Fixed_match(P, typ) == Fixed_matchTok(Fixed_peek(P, 1), typ)

\* for range k { p.consume() }, which a panic leaves
RECURSIVE Fixed_fill(_, _)
Fixed_fill(P, n) ==
    IF n = 0 \/ P.panicv # nil THEN P ELSE Fixed_fill(Fixed_consume(P), n - 1)

\* NewBacktrackingParser(l, k): buf := make([]Token, k), then k calls of consume
Fixed_NewBacktrackingParser ==
    /\ client = "fixed"
    /\ outcome = "new"
    /\ \E kk \in 1..MaxK :
       \E P \in {Fixed_fill([lex |-> lex, lookahead |-> [i \in 1..kk |-> ZeroToken],
                              pos |-> 0, panicv |-> nil], kk)} :
           /\ Fixed_Store(P)
           /\ outcome' = OpsOutcome(P)
    /\ UNCHANGED <<input, buf, k, err, markers, ctl, ret, client, out, hist>>

Fixed_Ready ==
    /\ client = "fixed"
    /\ outcome = "ready"
    /\ hist.nops < MaxOps

\* a client that calls peek(n) for any n in 1..k and match with any expected
\* type, in any order
Fixed_opPeek ==
    /\ Fixed_Ready
    /\ \E n \in 1..Len(lookahead) :
       \E r \in {Fixed_peek(Fixed_Cur, n)} :
           /\ Fixed_Store(r.p)
           /\ outcome' = OpsOutcome(r.p)
           /\ hist' = [hist EXCEPT
                         !.nops = @ + 1,
                         !.lastPeek = [valid |-> r.p.panicv = nil, n |-> n,
                                       tok |-> r.tok, c |-> hist.consumed,
                                       resets |-> 0]]
    /\ UNCHANGED <<input, buf, k, err, markers, ctl, ret, client, out>>

Fixed_opMatch ==
    /\ Fixed_Ready
    /\ \E typ \in TokenTypes :
       \E P \in {Fixed_match(Fixed_Cur, typ)} :
           /\ Fixed_Store(P)
           /\ outcome' = OpsOutcome(P)
           /\ hist' = [hist EXCEPT
                         !.nops = @ + 1,
                         !.consumed = IF P.panicv = nil THEN @ + 1 ELSE @]
    /\ UNCHANGED <<input, buf, k, err, markers, ctl, ret, client, out>>

InitFixed == InitFor("fixed", Strings(MaxOpsLen))

NextFixed ==
    \/ Fixed_NewBacktrackingParser
    \/ Fixed_opPeek
    \/ Fixed_opMatch

SpecFixed == InitFixed /\ [][NextFixed]_vars

-----------------------------------------------------------------------------
(* Properties *)

\* C1: for every input string that matches the grammar, stat() does not panic,
\* and when it has returned the cursor is on an EOF token (peek(1).Type = EOF)
\* and the marker stack is empty.
C1_GrammarInputAccepted ==
    (client = "stat" /\ hist.ref.inGrammar) =>
        /\ outcome # "panicked"
        /\ outcome = "returned" =>
              /\ peek(Cur, 1).p.panicv = nil
              /\ peek(Cur, 1).tok.Type = EOF
              /\ markers = <<>>

\* C2: for every input string that does not match the grammar, stat() never
\* returns normally; when the panic leaves stat() its value is a SyntaxError or
\* a lexical error and the marker stack is empty.
C2_NonGrammarInputRejected ==
    (client = "stat" /\ hist.statCalled /\ ~hist.ref.inGrammar) =>
        /\ outcome # "returned"
        /\ outcome = "panicked" =>
              /\ panicv.kind \in {"SyntaxError", "LexicalError"}
              /\ markers = <<>>
              /\ hist.marks = <<>>

\* a rejected input whose list trial consumed tokens before it failed
C2_Witness ==
    /\ client = "stat"
    /\ outcome = "panicked"
    /\ hist.statCalled
    /\ ~hist.ref.inGrammar
    /\ Len(hist.trials) = 2
    /\ hist.trials[1].endPos > 1
    /\ panicv.kind = "SyntaxError"

\* C3: whenever speculateList() or speculateAssign() returns false, pos and the
\* marker stack equal their values at the call and peek(1) returns the token it
\* returned before the call (and changes nothing), however many tokens the
\* failed attempt consumed or appended to the buffer.
C3_FailedSpeculationRollsBack ==
    (JustReturned /\ ~ret) =>
        /\ pos = hist.spec.pos0
        /\ markers = hist.spec.markers0
        /\ peek(Cur, 1).tok = hist.spec.tok0
        /\ peek(Cur, 1).p = Cur

\* a failed attempt that consumed tokens and appended tokens to the buffer
C3_Witness ==
    /\ JustReturned
    /\ ~ret
    /\ hist.spec.endPos > hist.spec.pos0 + 1
    /\ Len(lookahead) > Len(hist.spec.buf0) + 1

\* C4: a lexical error returned by Lexer.Next while a speculation extends the
\* buffer aborts the parse with that error: it stays the panic in flight (it is
\* never turned into "this alternative did not match"), and the lexer is not
\* asked for that token again.
C4_LexicalErrorAbortsParse ==
    (client = "stat" /\ hist.statCalled /\ hist.lexErrs > 0) =>
        /\ panicv.kind = "LexicalError"
        /\ hist.lexErrs = 1
        /\ \A i \in DOMAIN hist.trials : hist.trials[i].cause.kind # "LexicalError"

\* the order of the trials in stat(): list first, assign only after list failed
\* and from the same position, and the alternative parsed for real is the one
\* whose trial succeeded
TrialOrder ==
    /\ Len(hist.trials) <= 2
    /\ hist.trials # <<>> => hist.trials[1].kind = "list"
    /\ Len(hist.trials) = 2 =>
          /\ hist.trials[2].kind = "assign"
          /\ ~hist.trials[1].success
          /\ hist.trials[2].startPos = hist.trials[1].startPos
    /\ (hist.spec.kind = "assign" /\ hist.spec.state = "running") =>
          /\ Len(hist.trials) = 1
          /\ ~hist.trials[1].success
          /\ hist.spec.pos0 = hist.trials[1].startPos
          /\ hist.spec.buf0[hist.spec.pos0 + 1] = lookahead[hist.trials[1].startPos + 1]
    /\ hist.commit = "list" => (Len(hist.trials) = 1 /\ hist.trials[1].success)
    /\ hist.commit = "assign" => (Len(hist.trials) = 2 /\ hist.trials[2].success)

\* C5: ordered choice in stat() (TrialOrder), and consequently an input of the
\* form list '=' list is rejected by the list trial and recognized, through the
\* assign alternative.
C5_OrderedChoice ==
    client = "stat" =>
        /\ TrialOrder
        /\ hist.ref.assignForm =>
              /\ hist.trials # <<>> => ~hist.trials[1].success
              /\ hist.commit # "list"
              /\ outcome # "panicked"
              /\ outcome = "returned" => hist.commit = "assign"

\* C6 as stated: a speculation that returns true leaves pos at the end of the
\* recognized alternative (where the attempt stopped); one that returns false
\* leaves pos unchanged.
C6_SuccessLeavesPosAtEnd ==
    JustReturned => pos = (IF ret THEN hist.spec.endPos ELSE hist.spec.pos0)

\* C6 amended: a speculation that returns, true or false, leaves pos at its
\* value at the call.  On success the attempt had advanced just past the
\* tokens of the alternative and its EOF before release() rewound it, and those
\* tokens are still in the buffer.
C6_SpeculationRestoresPos ==
    JustReturned =>
        /\ pos = hist.spec.pos0
        /\ ret =>
              /\ hist.spec.endPos = hist.spec.pos0 + Len(hist.ref.lexTokens) + 1
              /\ hist.spec.endPos < Len(lookahead)
              /\ \A i \in 1..hist.spec.endPos : lookahead[i] = StreamTok(hist.ref.lexTokens, i)

\* a successful speculation that advanced over at least four tokens
C6_Witness ==
    /\ JustReturned
    /\ ret
    /\ hist.spec.endPos > hist.spec.pos0 + 3

\* C7: markers are LIFO: the marker stack holds the positions captured by the
\* unreleased mark() calls, oldest first; a release() sets pos to the position
\* captured by the most recent unreleased mark(); during a speculate call its
\* marker is not released, and when the call returns (normally or after a
\* panic) release() has run exactly once and the stack is as at the call.
C7_MarkerDiscipline ==
    /\ Len(markers) = Len(hist.marks)
    /\ \A i \in DOMAIN markers : markers[i] = hist.marks[Len(markers) - i + 1].pos
    /\ hist.lastRelease.done => hist.lastRelease.got = hist.lastRelease.want
    /\ hist.spec.state = "running" =>
          /\ hist.spec.releases = 0
          /\ Len(markers) = Len(hist.spec.markers0) + 1
    /\ hist.spec.state = "done" =>
          /\ hist.spec.releases = 1
          /\ markers = hist.spec.markers0

\* a speculate call that returned on the panic path after consuming tokens
C7_Witness ==
    /\ JustReturned
    /\ hist.spec.cause # nil
    /\ hist.spec.releases = 1
    /\ hist.spec.endPos > hist.spec.pos0

\* C8: while a marker is on the stack every step leaves the buffered tokens as
\* an unchanged prefix of the buffer, and every position saved in a marker
\* indexes the token it indexed when it was marked.
C8_BufferAppendOnly ==
    /\ [][Len(markers) > 0 => IsPrefix(lookahead, lookahead')]_vars
    /\ [](\A i \in DOMAIN hist.marks :
             /\ hist.marks[i].pos + 1 \in DOMAIN lookahead
             /\ lookahead[hist.marks[i].pos + 1] = hist.marks[i].tok)

\* a marker is on the stack, the cursor has moved past it and the buffer has
\* grown beyond the cursor
C8_Witness ==
    /\ Len(markers) > 0
    /\ pos > markers[1] + 1
    /\ Len(lookahead) > pos

\* C9: over a lexically valid input, whatever sequence of peek, match, mark and
\* release was called, peek(n) returns the token at position c+n of the lexer's
\* token stream, c being the number of tokens consumed net of rollbacks.
C9_ResetNotObservable ==
    (client = "ops" /\ hist.lastPeek.valid /\ hist.ref.lexValid) =>
        hist.lastPeek.tok = StreamTok(hist.ref.lexTokens, hist.lastPeek.c + hist.lastPeek.n)

\* a peek of a token other than EOF made after a buffer reset
C9_Witness ==
    /\ client = "ops"
    /\ hist.lastPeek.valid
    /\ hist.ref.lexValid
    /\ hist.lastPeek.resets > 0
    /\ hist.lastPeek.c > 0
    /\ hist.lastPeek.tok.Type # EOF

\* C10: for every input made only of the grammar's terminal characters, the
\* results of the calls of Next are, in order, the tokens of the reference
\* segmentation and then EOF, each with a nil error.
C10_LexerMatchesReference ==
    (client = "lex" /\ hist.ref.terminals) =>
        \A i \in DOMAIN out :
            /\ out[i].err = nil
            /\ out[i].tok = StreamTok(hist.ref.refTokens, i)

\* the lexer has returned the EOF token with a nil error
EofDelivered == out # <<>> /\ out[Len(out)].tok.Type = EOF /\ out[Len(out)].err = nil

\* C11: once Next has returned a token of type EOF with a nil error, every
\* later call of Next returns the EOF token with empty text and a nil error
\* and leaves the lexer as it was (both lexers; Scan() changes no state).
C11_EofIdempotent ==
    [][(client \in {"lex", "lex2"} /\ EofDelivered) =>
          /\ Len(out') = Len(out) + 1
          /\ out'[Len(out')].tok = Token(EOF, <<>>)
          /\ out'[Len(out')].err = nil
          /\ lex' = lex]_vars

\* Next was called twice more after it first returned EOF, at the end of an
\* input that has a token
C11_Witness ==
    /\ client \in {"lex", "lex2"}
    /\ Len(out) >= 4
    /\ out[1].tok.Type # EOF
    /\ \A i \in (Len(out) - 2)..Len(out) : out[i].tok.Type = EOF /\ out[i].err = nil

\* first index from i on of s that holds no whitespace (Len(s) + 1 if none)
RECURSIVE SkipSpace(_, _)
SkipSpace(s, i) == IF i > Len(s) \/ ~IsSpace(s[i]) THEN i ELSE SkipSpace(s, i + 1)

\* the next character Next will look at, whitespace skipped, is a character of
\* no token: not one of '[' ']' ',' '=' and not an ASCII letter
AtBadChar ==
    /\ client = "lex"
    /\ SkipSpace(input, lex.pos + 1) <= Len(input)
    /\ ~IsTerminalChar(input[SkipSpace(input, lex.pos + 1)])

\* C12: at a character of no token Next returns the zero token and an error
\* naming that character, leaves it unconsumed and sets stopped; the calls
\* after an error all return that same error, so no token follows it.
C12_BadCharIsSticky ==
    /\ [][AtBadChar =>
             /\ out'[Len(out')].tok = ZeroToken
             /\ out'[Len(out')].err = LexicalError(input[SkipSpace(input, lex.pos + 1)])
             /\ lex'.pos = SkipSpace(input, lex.pos + 1) - 1
             /\ lex'.current = input[lex'.pos + 1]
             /\ lex'.stopped]_vars
    /\ [](client = "lex" =>
             \A i, j \in DOMAIN out :
                 (i < j /\ out[i].err # nil) =>
                     (out[j].tok = out[i].tok /\ out[j].err = out[i].err))

\* the error was returned three times, after a token and skipped whitespace
C12_Witness ==
    /\ client = "lex"
    /\ Len(out) >= 4
    /\ out[1].err = nil
    /\ \A i \in (Len(out) - 2)..Len(out) : out[i].err # nil
    /\ \E i \in DOMAIN input : IsSpace(input[i]) /\ i <= lex.pos

\* the results of the calls the loop `for l.Scan() { l.Next() }` makes
LoopOut == SelectSeq(out, LAMBDA e : e.scan)

\* Scan() is true until, and false from the moment, Next has returned the EOF
\* token or an error; the loop makes at most one call per character and one more
ScanProtocol ==
    /\ Scan(lex) = (\A i \in DOMAIN out : out[i].err = nil /\ out[i].tok.Type # EOF)
    /\ Len(LoopOut) <= Len(input) + 1
    /\ \A i \in DOMAIN LoopOut :
           i < Len(LoopOut) => (LoopOut[i].err = nil /\ LoopOut[i].tok.Type # EOF)

\* C13: the loop `for Scan() { Next() }` ends for every input (ScanProtocol);
\* when it has ended, for an input of terminal characters it has delivered the
\* input's tokens in order and then exactly one EOF token with empty text, and
\* for any other input its last call returned an error.
C13_ScanLoopDeliversTokens ==
    client = "lex" =>
        /\ ScanProtocol
        /\ ~Scan(lex) =>
              IF hist.ref.terminals
              THEN /\ Len(LoopOut) = Len(hist.ref.refTokens) + 1
                   /\ \A i \in DOMAIN LoopOut :
                          /\ LoopOut[i].err = nil
                          /\ LoopOut[i].tok = StreamTok(hist.ref.refTokens, i)
              ELSE LoopOut[Len(LoopOut)].err # nil

\* C14: when list() has returned, p.err is nil if the input is a well-formed
\* nested name list and a SyntaxError if it is not.
C14_ParserRecognizesNameLists ==
    (client = "ll1" /\ outcome = "returned") =>
        IF hist.ref.nameList THEN err = nil ELSE err.kind = "SyntaxError"

\* C15: a call of Parser.match or LLkParser.match whose expected type is the
\* type of the current lookahead advances: the lookahead becomes the next token
\* of the lexer's stream (EOF once the input is exhausted) and no error is
\* recorded; any other call leaves the lookahead and the lexer where they were
\* and sets err to a SyntaxError naming the expected and the actual type.
C15_MatchContract ==
    (client \in {"ll1", "llk"} /\ hist.lastMatch.valid /\ BaselineLexValid) =>
        IF hist.lastMatch.hit
        THEN /\ hist.lastMatch.after = StreamTok(BaselineTokens, hist.lastMatch.c + 2)
             /\ hist.lastMatch.err1 \in {nil, hist.lastMatch.err0}
        ELSE /\ hist.lastMatch.after = hist.lastMatch.before
             /\ hist.lastMatch.lexSame
             /\ hist.lastMatch.err1 =
                    SyntaxErrorAt("match", {hist.lastMatch.typ}, hist.lastMatch.before.Type)

\* C16: a failure recorded by match or element stays in err until a later
\* failure overwrites it: whenever a failure has been recorded, and so when
\* list() returns, err is the failure recorded last.
C16_LastFailureRetained ==
    (client \in {"ll1", "llk"} /\ hist.failed) => err = hist.lastFailure

\* C17: with k = 2, when list() has returned on a well-formed list of the
\* extended grammar, err is nil.
C17_LL2AcceptsLists ==
    (client = "llk" /\ k = 2 /\ outcome = "returned" /\ hist.ref.kList) => err = nil

\* C18: with k = 1, lookahead(2) is the token lookahead(1) is, and when list()
\* has returned on a well-formed list that has an element NAME '=' NAME, err
\* is a SyntaxError.
C18_LL1CannotParseAssignment ==
    (client = "llk" /\ k = 1) =>
        /\ LLk_lookahead(LLk_Cur, 2) = LLk_lookahead(LLk_Cur, 1)
        /\ (outcome = "returned" /\ hist.ref.kList /\ hist.ref.hasAssign) =>
               err.kind = "SyntaxError"

\* list() returned with k = 1 on a well-formed list with an assignment element
C18_Witness ==
    /\ client = "llk"
    /\ k = 1
    /\ outcome = "returned"
    /\ hist.ref.kList
    /\ hist.ref.hasAssign
    /\ hist.consumed >= 2

\* C19: once the LLkParser is constructed, and after any calls of match, for
\* every n in 1..k lookahead(n) is the n-th token of the lexer's stream that
\* has not been consumed (EOF past the end of the input).
C19_CircularBuffer ==
    (client \in {"llk", "llkops"} /\ outcome # "new" /\ hist.ref.lexValid) =>
        \A n \in 1..k :
            LLk_lookahead(LLk_Cur, n) = StreamTok(hist.ref.lexTokens, hist.consumed + n)

\* the buffer index has wrapped around, after successful and failed calls of
\* match, and tokens of the input are still ahead
C19_Witness ==
    /\ client \in {"llk", "llkops"}
    /\ hist.ref.lexValid
    /\ k >= 2
    /\ hist.consumed > k
    /\ err # nil
    /\ LLk_lookahead(LLk_Cur, 1).Type # EOF

\* C20: stat() ends on every input, by returning or by a panic that leaves
\* it.  Every call of match that returns has moved the cursor one token on
\* (so does every round of the elements loop and every entry into list, which
\* begin with a match); nothing else moves it forward; the lists entered and
\* not yet closed are no more than the tokens consumed plus one; and the
\* cursor passes an EOF token only by match(EOF), never going further than one
\* token past the tokens of the input.
C20_StatTerminates ==
    /\ <>(outcome \in {"returned", "panicked"})
    /\ [][(Top("match", 0) /\ panicv' = nil) => AbsPos' = AbsPos + 1]_vars
    /\ [][(outcome = "running" /\ AbsPos' > AbsPos) =>
             /\ Top("match", 0)
             /\ TokAt(Cur).Type = EOF => Head(ctl).typ = EOF]_vars
    /\ [](outcome = "running" =>
             /\ OpenLists <= AbsPos + 1
             /\ AbsPos <= Len(hist.ref.lexTokens) + 1)

\* stat() returned on an input of at least five tokens, the cursor having
\* passed the EOF token
C20_Witness ==
    /\ client = "stat"
    /\ outcome = "returned"
    /\ Len(hist.ref.lexTokens) >= 5
    /\ AbsPos = Len(hist.ref.lexTokens) + 1

\* C21: Parser.list() ends on every input: the run reaches the return of
\* list() to its caller, and the recursion list, elements, element, list never
\* exhausts the stack.
C21_ParserListTerminates ==
    /\ <>(outcome = "returned")
    /\ [](outcome # "overflow")

\* the results of the calls peek(1) and peek(2) element() begins with
ElementFirst == peek(Cur, 1)
ElementSecond == peek(ElementFirst.p, 2)

\* C22: when element() is called and peek(1) and peek(2) return, they are the
\* next two tokens of the stream, and their types alone decide the step:
\* NAME '=' NAME is matched if they are Name and Equals; else a NAME if the
\* first is Name; else list() is entered if the first is LBrack and the second
\* is not EOF; else a SyntaxError naming the first is raised and the cursor
\* stays where it was.
C22_ElementDecision ==
    [][(Top("element", 0) /\ ElementFirst.p.panicv = nil /\ ElementSecond.p.panicv = nil) =>
          /\ ElementFirst.tok = StreamTok(hist.ref.lexTokens, AbsPos + 1)
          /\ ElementSecond.tok = StreamTok(hist.ref.lexTokens, AbsPos + 2)
          /\ IF ElementFirst.tok.Type = Name /\ ElementSecond.tok.Type = Equals
             THEN /\ panicv' = nil
                  /\ ctl' = <<CallMatch(Name), CallMatch(Equals), CallMatch(Name)>> \o Tail(ctl)
             ELSE IF ElementFirst.tok.Type = Name
                  THEN /\ panicv' = nil
                       /\ ctl' = <<CallMatch(Name)>> \o Tail(ctl)
                  ELSE IF ElementFirst.tok.Type = LBrack /\ ElementSecond.tok.Type # EOF
                       THEN /\ panicv' = nil
                            /\ ctl' = <<Call("list")>> \o Tail(ctl)
                       ELSE /\ panicv' = SyntaxErrorAt("element", {Name, LBrack},
                                                       ElementFirst.tok.Type)
                            /\ pos' = pos
                            /\ AbsPos' = AbsPos]_vars

\* element() raised its SyntaxError on a '[' that ends the input
C22_Witness ==
    /\ client = "stat"
    /\ hist.ref.lexValid
    /\ panicv = SyntaxErrorAt("element", {Name, LBrack}, LBrack)
    /\ AbsPos >= 1

\* C23: on a lexically valid input, a SyntaxError raised by match or element
\* is raised only while a speculate call is there to recover it, the next
\* step recovers it and makes the trial return false, and a panic that has
\* left stat() is the SyntaxError of stat() itself, raised after both trials
\* failed and naming the type of the first token of the statement.
C23_OnlyStatFailureEscapes ==
    /\ []((client = "stat" /\ hist.ref.lexValid /\ panicv.kind = "SyntaxError"
              /\ panicv.site \in {"match", "element"}) =>
             /\ outcome = "running"
             /\ Handlers # {}
             /\ isSpeculating(Cur))
    /\ [][(client = "stat" /\ hist.ref.lexValid /\ outcome = "running"
              /\ panicv.kind = "SyntaxError" /\ panicv.site \in {"match", "element"}) =>
             /\ panicv' = nil
             /\ ret' = FALSE
             /\ outcome' = "running"]_vars
    /\ []((client = "stat" /\ hist.ref.lexValid /\ outcome = "panicked") =>
             /\ panicv = SyntaxErrorAt("stat", {LBrack},
                                       StreamTok(hist.ref.lexTokens, 1).Type)
             /\ Len(hist.trials) = 2
             /\ \A i \in DOMAIN hist.trials :
                    /\ ~hist.trials[i].success
                    /\ hist.trials[i].cause.kind = "SyntaxError"
                    /\ hist.trials[i].cause.site \in {"match", "element"})

\* stat() panicked after two trials that failed at tokens other than the
\* first, the second trial on a different token type than the one reported
C23_Witness ==
    /\ client = "stat"
    /\ hist.ref.lexValid
    /\ outcome = "panicked"
    /\ Len(hist.trials) = 2
    /\ hist.trials[1].endPos >= 2
    /\ hist.trials[2].endPos >= 2
    /\ hist.trials[2].cause.found # panicv.found

\* C24: the cursor is never negative and never beyond the end of the buffer;
\* once the parser is constructed, in every state no panic is in flight in
\* (NewBacktrackingParser, peek, match, mark, release or a speculate call has
\* returned) it is before the end of the buffer; and when sync(n) returns, the
\* index pos + n - 1 is inside the buffer, so that peek(n) reads that index
\* and never index 0 in its place.
C24_CursorInvariant ==
    (client \in {"stat", "ops"}) =>
        /\ 0 <= pos
        /\ pos <= Len(lookahead)
        /\ (outcome # "new" /\ panicv = nil) => pos < Len(lookahead)
        /\ panicv = nil =>
               \A n \in 1..MaxPeek :
               \A Q \in {sync(Cur, n)} :
                   Q.panicv = nil =>
                       /\ Q.pos = pos
                       /\ pos + n - 1 < Len(Q.lookahead)
                       /\ peekIndex(Q, n) = pos + n - 1

\* after a buffer reset the cursor stands on the last buffered token inside
\* an unreleased mark, so that peek(2) has to fill the buffer
C24_Witness ==
    /\ client = "ops"
    /\ outcome = "ready"
    /\ panicv = nil
    /\ hist.resets > 0
    /\ markers # <<>>
    /\ pos >= 1
    /\ pos = Len(lookahead) - 1
    /\ sync(Cur, 2).lookahead # lookahead

\* C25: in stat(), once a speculate call has returned true and the chosen
\* alternative is parsed for real, no step panics, calls Lexer.Next, resets
\* the buffer or changes it; the cursor never goes beyond where the trial
\* ended, and when stat() returns it is exactly where the successful trial
\* ended; at no time does the marker stack hold more than one marker.
C25_SpeculationPredictsParse ==
    /\ [](client = "stat" => Len(markers) <= 1)
    /\ [][(client = "stat" /\ hist.commit # "none") =>
             /\ panicv' = nil
             /\ hist'.nexts = hist.nexts
             /\ hist'.resets = hist.resets
             /\ lex' = lex
             /\ lookahead' = lookahead
             /\ markers' = <<>>]_vars
    /\ []((client = "stat" /\ hist.commit # "none") =>
             /\ hist.trials[Len(hist.trials)].success
             /\ hist.trials[Len(hist.trials)].kind = hist.commit
             /\ pos <= hist.trials[Len(hist.trials)].endPos
             /\ outcome = "returned" => pos = hist.trials[Len(hist.trials)].endPos)

\* stat() returned after parsing an assignment of lists for real, the second
\* alternative tried
C25_Witness ==
    /\ client = "stat"
    /\ outcome = "returned"
    /\ hist.commit = "assign"
    /\ Len(hist.trials) = 2
    /\ pos >= 6
    /\ hist.resets = 0

\* a call of match that finds the expected type, and so calls consume
Parser_MatchHit == Parser_Top("match", 0) /\ lookahead.Type = Head(ctl).typ
LLk_MatchHit == LLk_Top("match", 0) /\ LLk_lookahead(LLk_Cur, 1).Type = Head(ctl).typ

\* C26: consume never stores an error of the lexer in p.err.  Once the parser
\* is constructed no step puts a lexical error into err, and NewLLkParser
\* leaves err nil.  A consume leaves err as it was or nil, and changes it only
\* when Next returned a token that is not EOF; when Next returned an error,
\* err stays as it was and the parser sees what it sees at the end of the
\* input: Parser keeps its lookahead, LLkParser stores a token of Type EOF.
C26_ConsumeDropsLexicalErrors ==
    /\ [][(client \in {"ll1", "llk"} /\ outcome # "new" /\ err'.kind = "LexicalError") =>
             err' = err]_vars
    /\ [](client = "llk" => err.kind # "LexicalError")
    /\ [][(client = "llk" /\ outcome = "new") => err' = nil]_vars
    /\ [][Parser_MatchHit =>
             /\ err' \in {err, nil}
             /\ err' # err => ch2_Next(lex).tok.Type # EOF
             /\ ch2_Next(lex).err # nil => (err' = err /\ lookahead' = lookahead)]_vars
    /\ [][LLk_MatchHit =>
             /\ err' \in {err, nil}
             /\ err' # err => LexNext(lex).tok.Type # EOF
             /\ LexNext(lex).err # nil => (err' = err /\ buf'[pos + 1].Type = EOF)]_vars

\* a successful match of the Parser whose consume got a lexical error from
\* Next: the lexer stands at the character it rejects, and err is nil
C26_Witness ==
    /\ client = "ll1"
    /\ hist.lastMatch.valid
    /\ hist.lastMatch.hit
    /\ hist.lastMatch.lexSame
    /\ ch2_Next(lex).err.kind = "LexicalError"
    /\ err = nil

\* C27: in the parser over a buffer of k slots, on a lexically valid input,
\* every call peek(n) with 1 <= n <= k, made after any calls of match, returns
\* the n-th token not yet consumed, and no call indexes outside the buffer.
C27_FixedBufferPeek ==
    (client = "fixed" /\ hist.ref.lexValid) =>
        /\ panicv.kind # "RuntimeError"
        /\ hist.lastPeek.valid =>
               hist.lastPeek.tok =
                   StreamTok(hist.ref.lexTokens, hist.lastPeek.c + hist.lastPeek.n)

====
